---- MODULE Spec2Model ----
(***************************************************************************)
(* Model of rec.py: a Streamlit script that reads restaurant pages from a  *)
(* Notion database, pivots the comma separated referrer column into a      *)
(* user x restaurant matrix, row-normalises it, and answers user-based and *)
(* item-based nearest-neighbour queries over cosine similarity.            *)
(*                                                                         *)
(* Representation.  A string is a sequence of one-character strings, so    *)
(* str.split(',') is computed and not assumed.  A restaurant name is a     *)
(* natural number standing for the rank of the name in string order; 0 is  *)
(* the empty name "" (it sorts before every other string).  A weight is an *)
(* exact fraction <<count, row total>>.  A cosine similarity is kept as    *)
(* the exact fraction of its square and compared by cross multiplication.  *)
(***************************************************************************)
EXTENDS Integers, Sequences, FiniteSets, TLC

VARIABLES pc, NOTION_API_KEY, DATABASE_ID, st_error, df, user_item_matrix,
          user_similarity, item_similarity, call

vars == <<pc, NOTION_API_KEY, DATABASE_ID, st_error, df, user_item_matrix,
          user_similarity, item_similarity, call>>

(* ------------------------------ bounds --------------------------------- *)
\* pages in a freely chosen query result
MaxRecords == 3
\* pages in the longest catalogue query result
CatalogueLen == 12
\* largest n passed to a recommender
MaxN == 6

\* restaurants listed in the catalogue query results
CatalogueNames == 7

(* --------------------------- program constants ------------------------- *)
\* the neighbour slice [1:6] ends at position 6
WindowEnd == 6

(* ------------------------------ helpers -------------------------------- *)
Min(a, b) == IF a <= b THEN a ELSE b

Range(s) == {s[i] : i \in DOMAIN s}

RECURSIVE Sum(_, _)
Sum(f, S) == IF S = {} THEN 0
             ELSE LET x == CHOOSE y \in S : TRUE IN f[x] + Sum(f, S \ {x})

RECURSIVE GCD(_, _)
GCD(a, b) == IF b = 0 THEN a ELSE GCD(b, a % b)

RECURSIVE LCM(_)
LCM(S) == IF S = {} THEN 1
          ELSE LET x == CHOOSE y \in S : TRUE
                   l == LCM(S \ {x})
               IN (x * l) \div GCD(x, l)

\* ascending order of a set of naturals, as a sequence
RECURSIVE sorted(_)
sorted(S) == IF S = {} THEN <<>>
             ELSE LET x == CHOOSE y \in S : \A z \in S : y <= z
                  IN <<x>> \o sorted(S \ {x})

\* s[::-1]
reversed(s) == [i \in 1..Len(s) |-> s[Len(s) + 1 - i]]

\* s[:n]
head(s, n) == SubSeq(s, 1, Min(n, Len(s)))

(* --------------------------- configuration ----------------------------- *)
\* what st.secrets / os.environ can hold for one setting
Settings == {"None", "", "secret"}

\* st.secrets[k] if k in st.secrets else os.environ.get(k)
ReadSetting(secret, env) == IF secret # "None" THEN secret ELSE env

\* variant: "and" in place of "or"
ConfigBothMissing(key, db) == (key = "None" \/ key = "") /\ (db = "None" \/ db = "")

\* not NOTION_API_KEY or not DATABASE_ID
ConfigMissing(key, db) == (key = "None" \/ key = "") \/ (db = "None" \/ db = "")

(* ----------------------------- data loader ----------------------------- *)
\* the referrer texts of the pages of a freely chosen query result
ReferrerStrings == {<<"a">>, <<"b">>, <<"a", ",", "b">>}

\* the titles of the pages of a freely chosen query result: none or one name
Titles == {<<>>, <<1>>}

\* a page: title is a list of 0 or 1 names, rich_text a list of 0 or 1 texts
Pages == [title : Titles, rich_text : {<<>>} \cup {<<s>> : s \in ReferrerStrings}]

CatalogueUsers == <<"a", "b", "c">>

\* a catalogue: page i names restaurant ((i-1) mod CatalogueNames)+1; its
\* referrer text is the i-th user in turn, followed by the next user when
\* the pages list two referrers each
Catalogue(k, two) ==
    LET user(i) == CatalogueUsers[((i - 1) % Len(CatalogueUsers)) + 1]
    IN [i \in 1..k |->
          [title |-> <<((i - 1) % CatalogueNames) + 1>>,
           rich_text |-> IF two THEN << <<user(i), ",", user(i + 1)>> >>
                         ELSE << <<user(i)>> >>]]

QueryResults ==
    UNION {[1..k -> Pages] : k \in 0..MaxRecords}
      \cup {Catalogue(k, two) : k \in 0..CatalogueLen, two \in BOOLEAN}

get_notion_data(results) ==
    [i \in 1..Len(results) |->
       [name |-> IF results[i].title # <<>> THEN Head(results[i].title) ELSE 0,
        referrer |-> IF results[i].rich_text # <<>>
                     THEN Head(results[i].rich_text) ELSE <<>>]]

(* ---------------------------- matrix builder --------------------------- *)
RECURSIVE split(_, _)
split(s, cur) ==
    IF s = <<>> THEN <<cur>>
    ELSE IF Head(s) = "," THEN <<cur>> \o split(Tail(s), <<>>)
    ELSE split(Tail(s), Append(cur, Head(s)))

\* str.split(',')
str_split(s) == split(s, <<>>)

RECURSIVE explode(_, _)
explode(lists, i) ==
    IF i > Len(lists) THEN <<>>
    ELSE [j \in 1..Len(lists[i]) |-> [restaurant_index |-> i - 1, user |-> lists[i][j]]]
           \o explode(lists, i + 1)

\* df[referrer].str.split(',').explode().reset_index(): row p of the result
\* carries the label p-1
user_restaurant_pairs(d) == explode([i \in 1..Len(d) |-> str_split(d[i].referrer)], 1)

\* pivot_table(values='rating', index='user', columns=df[name], aggfunc='sum',
\* fill_value=0).  The columns key is a Series labelled 0..Len(d)-1; groupby
\* reindexes it on the labels 0..Len(pairs)-1 of the pairs frame, so row p of
\* the pairs is grouped under the name of record p, and the rows past the last
\* record get a missing key and are dropped.
pivot_table(pairs, d) ==
    LET kept == {p \in 1..Len(pairs) : p <= Len(d)}
        index == {pairs[p].user : p \in kept}
        columns == {d[p].name : p \in kept}
    IN [index |-> index, columns |-> columns,
        values |-> [u \in index |-> [r \in columns |->
                      Cardinality({p \in kept : pairs[p].user = u /\ d[p].name = r})]]]

\* variant: the division by the column totals, sum(axis=0)
div_column_sum(m) ==
    [index |-> m.index, columns |-> m.columns,
     values |-> [u \in m.index |-> [r \in m.columns |->
                   <<m.values[u][r], Sum([v \in m.index |-> m.values[v][r]], m.index)>>]]]

\* user_item_matrix.div(user_item_matrix.sum(axis=1), axis=0)
div_row_sum(m) ==
    [index |-> m.index, columns |-> m.columns,
     values |-> [u \in m.index |-> [r \in m.columns |->
                   <<m.values[u][r], Sum(m.values[u], m.columns)>>]]]

build(d) == div_row_sum(pivot_table(user_restaurant_pairs(d), d))

EmptyMatrix == [index |-> {}, columns |-> {}, values |-> <<>>]

(* --------------------------- similarity engine ------------------------- *)
\* every weight times the least common multiple of the row totals: integers
\* in the same proportions as the floating point weights
scaled(m) ==
    LET L == LCM({m.values[u][r][2] : u \in m.index, r \in m.columns} \ {0})
    IN [u \in m.index |-> [r \in m.columns |->
          IF m.values[u][r][2] = 0 THEN 0
          ELSE m.values[u][r][1] * (L \div m.values[u][r][2])]]

\* cosine_similarity(X)[a][b], X given as rows over cols.  The weights are not
\* negative, so a cosine is kept as its square dot^2 / (|a|^2 |b|^2), a
\* fraction <<p, q>> in lowest terms; 0 / 0 (a zero vector) is kept as <<0, 1>>,
\* the 0 that sklearn's normalize gives
cosine_similarity(X, rows, cols) ==
    LET norm2 == [a \in rows |-> Sum([c \in cols |-> X[a][c] * X[a][c]], cols)]
        dot == [a \in rows |-> [b \in rows |-> Sum([c \in cols |-> X[a][c] * X[b][c]], cols)]]
    IN [a \in rows |-> [b \in rows |->
          IF norm2[a] * norm2[b] = 0 THEN <<0, 1>>
          ELSE LET g == GCD(dot[a][b] * dot[a][b], norm2[a] * norm2[b])
               IN << (dot[a][b] * dot[a][b]) \div g, (norm2[a] * norm2[b]) \div g >>]]

\* user_item_matrix.T
transpose(X, rows, cols) == [c \in cols |-> [a \in rows |-> X[a][c]]]

\* x <= y for similarities x = <<a, b>>, y = <<c, d>>: a/b <= c/d
SimLeq(x, y) == x[1] * y[2] <= y[1] * x[2]

\* numpy argsort (kind quicksort, not stable): every ascending order of the
\* labels, equal values in any order
RECURSIVE argsort(_, _)
argsort(row, S) ==
    IF S = {} THEN {<<>>}
    ELSE UNION {{<<x>> \o s : s \in argsort(row, S \ {x})} :
                  x \in {y \in S : \A z \in S : SimLeq(row[y], row[z])}}

\* variant: the slice [1:] without its upper end
neighbours_unbounded(row, S) ==
    {LET r == reversed(p) IN SubSeq(r, 2, Len(r)) : p \in argsort(row, S)}

\* argsort()[::-1][1:6]
neighbours(row, S) ==
    {LET r == reversed(p) IN SubSeq(r, 2, Min(WindowEnd, Len(r))) : p \in argsort(row, S)}

(* ------------------------------ recommenders --------------------------- *)
\* user_item_matrix.iloc[similar_users].mean() as numerators over the common
\* denominator Scale(m) * Len(similar_users)
mean(m, similar_users) ==
    LET X == scaled(m)
    IN [r \in m.columns |-> Sum([i \in 1..Len(similar_users) |-> X[similar_users[i]][r]],
                                1..Len(similar_users))]

\* variant: the restaurants the user likes are not taken out
user_based_recommendation_unfiltered(m, usim, user, n) ==
    IF user \notin m.index
    THEN {[similar |-> <<>>, result |-> <<>>, raised |-> FALSE]}
    ELSE {[similar |-> similar_users, result |-> head(sorted(m.columns), n), raised |-> FALSE]
          : similar_users \in neighbours(usim[user], m.index)}

\* variant: no membership test, so index.get_loc raises KeyError
user_based_recommendation_unguarded(m, usim, user, n) ==
    IF user \notin m.index
    THEN {[similar |-> <<>>, result |-> <<>>, raised |-> TRUE]}
    ELSE {[similar |-> similar_users,
           result |-> head(sorted(m.columns \ {r \in m.columns : m.values[user][r][1] > 0}), n),
           raised |-> FALSE]
          : similar_users \in neighbours(usim[user], m.index)}

\* The outcomes of user_based_recommendation(user, n).  sort_values orders the
\* averaged Series, but the selection by recommendations.index.difference(...)
\* on the next line picks the labels in the order of the difference, which
\* Index.difference returns sorted by label.
user_based_recommendation(m, usim, user, n) ==
    IF user \notin m.index
    THEN {[similar |-> <<>>, result |-> <<>>, raised |-> FALSE]}
    ELSE {[similar |-> similar_users,
           result |-> head(sorted(m.columns \ {r \in m.columns : m.values[user][r][1] > 0}), n),
           raised |-> FALSE]
          : similar_users \in neighbours(usim[user], m.index)}

\* The outcomes of item_based_recommendation(restaurant, n)
item_based_recommendation(m, isim, restaurant, n) ==
    IF restaurant \notin m.columns
    THEN {[similar |-> <<>>, result |-> <<>>, raised |-> FALSE]}
    ELSE {[similar |-> similar_items, result |-> head(similar_items, n), raised |-> FALSE]
          : similar_items \in neighbours(isim[restaurant], m.columns)}

(* ------------------------------- the script ---------------------------- *)
\* the users a query is made for: every row of the matrix and a user that no
\* page names
QueryUsers(m) == m.index \cup {<<"z">>}

\* the restaurants a query is made for: every column of the matrix and a name
\* that no page has
QueryRestaurants(m) == m.columns \cup {CatalogueNames + 1}

NoCall == [fn |-> "none"]

Init ==
    /\ pc = "check_config"
    /\ \E ks \in Settings, ke \in Settings : NOTION_API_KEY = ReadSetting(ks, ke)
    /\ \E ds \in Settings, de \in Settings : DATABASE_ID = ReadSetting(ds, de)
    /\ st_error = FALSE
    /\ df = <<>>
    /\ user_item_matrix = EmptyMatrix
    /\ user_similarity = <<>>
    /\ item_similarity = <<>>
    /\ call = NoCall

\* lines 16-20: st.error and st.stop, or the Notion client is created
CheckConfig ==
    /\ pc = "check_config"
    /\ IF ConfigMissing(NOTION_API_KEY, DATABASE_ID)
       THEN pc' = "stopped" /\ st_error' = TRUE
       ELSE pc' = "fetch" /\ st_error' = st_error
    /\ UNCHANGED <<NOTION_API_KEY, DATABASE_ID, df, user_item_matrix,
                   user_similarity, item_similarity, call>>

\* line 58: df = get_notion_data()
GetNotionData ==
    /\ pc = "fetch"
    /\ \E results \in QueryResults : df' = get_notion_data(results)
    /\ pc' = "build"
    /\ UNCHANGED <<NOTION_API_KEY, DATABASE_ID, st_error, user_item_matrix,
                   user_similarity, item_similarity, call>>

\* lines 61-78: pd.DataFrame([]) has no columns, so df[referrer] raises
\* KeyError when no page was fetched
BuildMatrix ==
    /\ pc = "build"
    /\ IF df = <<>>
       THEN /\ pc' = "raised"
            /\ UNCHANGED <<user_item_matrix, user_similarity, item_similarity>>
       ELSE LET m == build(df)
                X == scaled(m)
            IN /\ pc' = "built"
               /\ user_item_matrix' = m
               /\ user_similarity' = cosine_similarity(X, m.index, m.columns)
               /\ item_similarity' =
                    cosine_similarity(transpose(X, m.index, m.columns), m.columns, m.index)
    /\ UNCHANGED <<NOTION_API_KEY, DATABASE_ID, st_error, df, call>>

\* lines 120-121: the user-based button was clicked in this run of the script
UserBasedRecommendation ==
    /\ pc = "built"
    /\ \E user \in QueryUsers(user_item_matrix), n \in 0..MaxN :
         \E o \in user_based_recommendation(user_item_matrix, user_similarity, user, n) :
            call' = [fn |-> "user_based_recommendation", arg |-> user, n |-> n,
                     similar |-> o.similar, result |-> o.result, raised |-> o.raised]
    /\ pc' = "done"
    /\ UNCHANGED <<NOTION_API_KEY, DATABASE_ID, st_error, df, user_item_matrix,
                   user_similarity, item_similarity>>

\* lines 139-140: the item-based button was clicked in this run of the script
ItemBasedRecommendation ==
    /\ pc = "built"
    /\ \E restaurant \in QueryRestaurants(user_item_matrix), n \in 0..MaxN :
         \E o \in item_based_recommendation(user_item_matrix, item_similarity, restaurant, n) :
            call' = [fn |-> "item_based_recommendation", arg |-> restaurant, n |-> n,
                     similar |-> o.similar, result |-> o.result, raised |-> o.raised]
    /\ pc' = "done"
    /\ UNCHANGED <<NOTION_API_KEY, DATABASE_ID, st_error, df, user_item_matrix,
                   user_similarity, item_similarity>>

Next ==
    \/ CheckConfig
    \/ GetNotionData
    \/ BuildMatrix
    \/ UserBasedRecommendation
    \/ ItemBasedRecommendation

Spec == Init /\ [][Next]_vars

TypeOK == pc \in {"check_config", "stopped", "fetch", "build", "raised", "built", "done"}

(* ------------------------------ properties ----------------------------- *)
Built == pc \in {"built", "done"}

UserCall == pc = "done" /\ call.fn = "user_based_recommendation"

ItemCall == pc = "done" /\ call.fn = "item_based_recommendation"

\* occurrences of u among the comma-split referrers of the records named r
Occurrences(d, u, r) ==
    Cardinality({p \in 1..Len(user_restaurant_pairs(d)) :
                   /\ user_restaurant_pairs(d)[p].user = u
                   /\ d[user_restaurant_pairs(d)[p].restaurant_index + 1].name = r})

\* occurrences of u among the referrers of all records
TotalOccurrences(d, u) ==
    Cardinality({p \in 1..Len(user_restaurant_pairs(d)) : user_restaurant_pairs(d)[p].user = u})

Referrers(d) == {user_restaurant_pairs(d)[p].user : p \in 1..Len(user_restaurant_pairs(d))}

RecordNames(d) == {d[i].name : i \in 1..Len(d)}

\* the weight of a pair, 0 for a pair the matrix does not hold
Weight(m, u, r) == IF u \in m.index /\ r \in m.columns THEN m.values[u][r] ELSE <<0, 1>>

\* C1: every pair (u, r) has the weight (occurrences of u among the referrers
\* of the records named r) / (occurrences of u among all referrers), also
\* when a record lists more than one referrer.
C1_PairWeights ==
    Built =>
      \A u \in Referrers(df), r \in RecordNames(df) :
         /\ Weight(user_item_matrix, u, r)[2] # 0
         /\ Weight(user_item_matrix, u, r)[1] * TotalOccurrences(df, u)
              = Occurrences(df, u, r) * Weight(user_item_matrix, u, r)[2]

\* C2: user_based_recommendation never returns a restaurant whose weight in
\* the querying user's own row is greater than 0.
C2_NeverAlreadyLiked ==
    (UserCall /\ call.arg \in user_item_matrix.index) =>
      \A i \in 1..Len(call.result) :
         user_item_matrix.values[call.arg][call.result[i]][1] = 0

\* a user-based answer that holds a restaurant while a restaurant the user
\* likes is also liked by one of the selected neighbours
C2_Witness ==
    /\ UserCall
    /\ call.arg \in user_item_matrix.index
    /\ call.result # <<>>
    /\ \E r \in user_item_matrix.columns :
         /\ user_item_matrix.values[call.arg][r][1] > 0
         /\ mean(user_item_matrix, call.similar)[r] > 0

\* C3: the neighbour window of user_based_recommendation never holds the
\* querying user, and item_based_recommendation never returns the queried
\* restaurant.
C3_SelfExcluded ==
    /\ (UserCall /\ call.arg \in user_item_matrix.index) =>
          call.arg \notin Range(call.similar)
    /\ (ItemCall /\ call.arg \in user_item_matrix.columns) =>
          call.arg \notin Range(call.result)

\* C4: for an unknown user and for an unknown restaurant the recommenders
\* return the empty list and raise nothing.
C4_UnknownKeyEmpty ==
    /\ (UserCall /\ call.arg \notin user_item_matrix.index) =>
          (call.result = <<>> /\ ~call.raised)
    /\ (ItemCall /\ call.arg \notin user_item_matrix.columns) =>
          (call.result = <<>> /\ ~call.raised)

\* an unknown user asked for at least one restaurant of a matrix that has some
C4_Witness ==
    /\ UserCall
    /\ call.arg \notin user_item_matrix.index
    /\ call.n > 0
    /\ Cardinality(user_item_matrix.columns) > 1
    /\ call.result = <<>>

\* the sum of the fractions of a row is 1: no denominator is 0 and, over the
\* least common denominator L, the numerators add up to L
RowSumsToOne(m, u) ==
    /\ \A r \in m.columns : m.values[u][r][2] # 0
    /\ LET L == LCM({m.values[u][r][2] : r \in m.columns})
       IN Sum([r \in m.columns |-> m.values[u][r][1] * (L \div m.values[u][r][2])],
              m.columns) = L

\* C5: every row of the built matrix has a non-zero row total and sums to
\* exactly 1 after normalisation.
C5_RowsSumToOne ==
    Built => \A u \in user_item_matrix.index : RowSumsToOne(user_item_matrix, u)

\* a built matrix with a row of two restaurants and a row counted twice
C5_Witness ==
    /\ Built
    /\ \E u \in user_item_matrix.index :
          Cardinality({r \in user_item_matrix.columns :
                         user_item_matrix.values[u][r][1] > 0}) > 1
    /\ \E u \in user_item_matrix.index, r \in user_item_matrix.columns :
          user_item_matrix.values[u][r][1] > 1

\* the records that have a referrer
WithReferrer(d) == SelectSeq(d, LAMBDA rec : rec.referrer # <<>>)

\* C6: a record with an empty referrer field contributes no pair: no row is
\* keyed by the empty string, and the rows are those built without it.
C6_EmptyReferrerNoPair ==
    Built =>
      /\ <<>> \notin user_item_matrix.index
      /\ user_item_matrix.index = build(WithReferrer(df)).index

\* C7: with no record fetched the build finishes without an error and gives
\* an empty matrix.
C7_EmptyBuilds ==
    (df = <<>> /\ pc \notin {"check_config", "stopped", "fetch", "build"}) =>
      /\ pc # "raised"
      /\ user_item_matrix.index = {}
      /\ user_item_matrix.columns = {}

\* C8: with the API key or the database id missing, the script shows the
\* error and stops; nothing is fetched, built or queried.
C8_MissingConfigStops ==
    (NOTION_API_KEY \in {"None", ""} \/ DATABASE_ID \in {"None", ""}) =>
      /\ pc \in {"check_config", "stopped"}
      /\ pc = "stopped" => st_error
      /\ df = <<>>
      /\ user_item_matrix = EmptyMatrix
      /\ call = NoCall

\* the script stopped with the error shown although the API key is set
C8_Witness ==
    /\ pc = "stopped"
    /\ st_error
    /\ NOTION_API_KEY = "secret"
    /\ DATABASE_ID \in {"None", ""}

\* C9: the user-based answer is in non-increasing order of the averaged
\* neighbour weight and is the top n of the unseen restaurants.
C9_OrderedByWeight ==
    (UserCall /\ call.arg \in user_item_matrix.index) =>
      LET score == mean(user_item_matrix, call.similar)
          unseen == {r \in user_item_matrix.columns :
                       user_item_matrix.values[call.arg][r][1] = 0}
      IN /\ \A i \in 1..Len(call.result), j \in 1..Len(call.result) :
               i < j => score[call.result[i]] >= score[call.result[j]]
         /\ \A r \in unseen \ Range(call.result), i \in 1..Len(call.result) :
               score[r] <= score[call.result[i]]

\* C10: the item-based answer has at most min(n, 5) names, in non-increasing
\* order of their similarity to the queried restaurant.
C10_AtMostFiveDescending ==
    (ItemCall /\ call.arg \in user_item_matrix.columns) =>
      /\ Len(call.result) <= Min(call.n, WindowEnd - 1)
      /\ \A i \in 1..Len(call.result), j \in 1..Len(call.result) :
            i < j => SimLeq(item_similarity[call.arg][call.result[j]],
                            item_similarity[call.arg][call.result[i]])

\* an answer of 5 names to n = 6 out of more than 6 restaurants, the last
\* name strictly less similar than the first
C10_Witness ==
    /\ ItemCall
    /\ call.arg \in user_item_matrix.columns
    /\ call.n > WindowEnd - 1
    /\ Cardinality(user_item_matrix.columns) > WindowEnd
    /\ Len(call.result) = WindowEnd - 1
    /\ ~SimLeq(item_similarity[call.arg][call.result[1]],
               item_similarity[call.arg][call.result[Len(call.result)]])
====
